---- MODULE Spec2Model ----
(***************************************************************************)
(* ClaimCompass client form controller (src/frontend/script.js).           *)
(*                                                                         *)
(* The page is a single-threaded, event-driven program: every action below *)
(* is one event handler (or one continuation of the async analyzeImage     *)
(* after an await) run to completion.  The startup health check writes to  *)
(* the console only; its continuations are interleaved with the handlers   *)
(* in SpecStartup and stay pending in Spec and SpecRestored.               *)
(*                                                                         *)
(* Text is modelled as a sequence of words, so that String.includes is a   *)
(* search for a contiguous run of words; the URL field and MIME types are  *)
(* sequences of characters, so that trim() and startsWith() are computed.  *)
(* A JSON value is a tagged record: undefined, a string or a boolean.      *)
(***************************************************************************)
EXTENDS Integers, Sequences, FiniteSets

VARIABLES
    form,                \* fileInput / imageUrlInput and their previews
    ui,                  \* the four cards, the analyze button, rendered text
    currentAnalysisData, \* the held result (script.js:7)
    inflight,            \* analyzeImage calls suspended at an await
    post,                \* the POST /api/analyze issued by the handler that just ran
    download,            \* the report file created by the handler that just ran
    health               \* checkAPIConnection: its position and console output

vars == <<form, ui, currentAnalysisData, inflight, post, download, health>>

(***************************************************************************)
(* Bounds                                                                  *)
(***************************************************************************)
\* analyzeImage calls that may be suspended at the same time
MaxInFlight == 2

(***************************************************************************)
(* JavaScript values                                                       *)
(***************************************************************************)
Undefined == [t |-> "undefined"]
Str(words) == [t |-> "string", s |-> words]
Bool(b) == [t |-> "boolean", b |-> b]
Null == [t |-> "null"]

\* ToBoolean, as used by `if (x)`, `!x` and `x || y`
Truthy(v) ==
    CASE v.t = "string" -> v.s # <<>>
      [] v.t = "boolean" -> v.b
      [] OTHER -> FALSE

\* ToString, as used by a template literal `${x}` and by new Error(x)
ToText(v) ==
    CASE v.t = "string" -> v.s
      [] v.t = "boolean" -> IF v.b THEN <<"true">> ELSE <<"false">>
      [] v.t = "null" -> <<"null">>
      [] OTHER -> <<"undefined">>

\* `v || fallback` where fallback is a string literal, read as text
OrElse(v, fallback) == IF Truthy(v) THEN ToText(v) ELSE fallback

\* text.includes(part): part occurs as a contiguous run of words
Includes(text, part) ==
    \E i \in 1..(Len(text) - Len(part) + 1) :
        SubSeq(text, i, i + Len(part) - 1) = part

\* s.startsWith(prefix), on sequences of characters
StartsWith(s, prefix) ==
    /\ Len(prefix) <= Len(s)
    /\ SubSeq(s, 1, Len(prefix)) = prefix

RECURSIVE TrimStart(_)
TrimStart(s) ==
    IF s # <<>> /\ Head(s) = " " THEN TrimStart(Tail(s)) ELSE s

RECURSIVE TrimEnd(_)
TrimEnd(s) ==
    IF s # <<>> /\ s[Len(s)] = " " THEN TrimEnd(SubSeq(s, 1, Len(s) - 1)) ELSE s

\* String.prototype.trim on a sequence of characters
Trim(s) == TrimEnd(TrimStart(s))

(***************************************************************************)
(* Messages of the controller (string literals of script.js)               *)
(***************************************************************************)
MsgNoInput ==
    <<"Please", "upload", "an", "image", "file", "or", "enter", "an", "image", "URL">>
MsgNotBoth ==
    <<"Please", "provide", "either", "a", "file", "or", "URL,", "not", "both">>
MsgDropNotImage == <<"Please", "drop", "an", "image", "file">>
MsgSelectNotImage == <<"Please", "select", "an", "image", "file">>
MsgEnterUrl == <<"Please", "enter", "an", "image", "URL">>
MsgUrlLoadFailed ==
    <<"Unable", "to", "load", "image", "from", "URL.", "Please", "check",
      "the", "URL", "and", "try", "again.">>
MsgAnalysisFailed == <<"Analysis", "failed">>
MsgConnect ==
    <<"Unable", "to", "connect", "to", "the", "analysis", "service.", "Please",
      "check", "if", "the", "backend", "server", "is", "running.">>
MsgTryAgain == <<"Failed", "to", "analyze", "image.", "Please", "try", "again.">>
MsgNoData == <<"No", "analysis", "data", "available", "to", "download">>
MsgOffline ==
    <<"No", "internet", "connection.", "Please", "check", "your", "network",
      "and", "try", "again.">>
TextUnknown == <<"Unknown">>
TextNoDamage == <<"No", "damage", "assessment", "available">>
TextNoEstimate == <<"Unable", "to", "estimate">>
LabelAnalyze == <<"Analyze", "Damage">>
LabelAnalyzing == <<"Analyzing...">>

(***************************************************************************)
(* Inputs: what the user, the browser and the server can supply            *)
(***************************************************************************)
NoFile == [name |-> "", type |-> <<>>]
PhotoFile == [name |-> "car.png",
              type |-> <<"i", "m", "a", "g", "e", "/", "p", "n", "g">>]
PdfFile == [name |-> "claim.pdf",
            type |-> <<"a", "p", "p", "l", "i", "c", "a", "t", "i", "o", "n",
                       "/", "p", "d", "f">>]
Files == {PhotoFile, PdfFile}

\* values of the URL text field: empty, blank, a URL, a URL with blanks around
UrlInputs == {<<>>, <<" ">>, <<"u">>, <<" ", "u", " ">>}

\* error.message of a rejected fetch(): Chrome/Firefox wording, Safari wording
TransportErrors == {<<"Failed", "to", "fetch">>, <<"Load", "failed">>}

\* error.message of a rejected response.json()
MsgSyntaxError == <<"Unexpected", "token", "<", "in", "JSON">>

\* messages a server can put in `detail` / `error`
ServerPlain == <<"Invalid", "image", "format">>
ServerFetch == <<"Could", "not", "fetch", "image", "from", "URL">>

Body(success, make, model, color, damage, cost, error, detail) ==
    [success |-> success, make |-> make, model |-> model, color |-> color,
     damage_summary |-> damage, repair_cost_estimate |-> cost,
     error |-> error, detail |-> detail]

FullResult ==
    Body(Bool(TRUE), Str(<<"Toyota">>), Str(<<"Corolla">>), Str(<<"Red">>),
         Str(<<"Dented", "rear", "bumper">>), Str(<<"$500", "-", "$800">>),
         Undefined, Undefined)
SparseResult ==
    Body(Bool(TRUE), Undefined, Str(<<>>), Undefined, Str(<<>>), Undefined,
         Undefined, Undefined)
SuccessBodies == {FullResult, SparseResult}

Failure(success, error, detail) ==
    Body(success, Undefined, Undefined, Undefined, Undefined, Undefined,
         error, detail)

\* JSON documents of a 2xx response without success: {success: false, error}
FailureBodies ==
    { Failure(Bool(FALSE), Str(ServerPlain), Undefined),
      Failure(Bool(FALSE), Str(ServerFetch), Undefined),
      Failure(Bool(FALSE), Str(<<>>), Undefined),
      Failure(Undefined, Undefined, Undefined) }

\* JSON documents of a non-2xx response: {detail}
ErrorBodies ==
    { Failure(Undefined, Undefined, Str(ServerPlain)),
      Failure(Undefined, Undefined, Str(ServerFetch)),
      Failure(Undefined, Undefined, Undefined) }

\* what the body of a 2xx response can parse to
OkBodies == SuccessBodies \cup FailureBodies

(***************************************************************************)
(* View helpers (script.js:218-269)                                        *)
(***************************************************************************)
ShowLoading(u) ==
    [u EXCEPT !.welcomeCard = FALSE, !.resultsCard = FALSE, !.errorCard = FALSE,
              !.loadingCard = TRUE,
              !.analyzeBtnDisabled = TRUE, !.analyzeBtnLabel = LabelAnalyzing]

HideLoading(u) ==
    [u EXCEPT !.loadingCard = FALSE,
              !.analyzeBtnDisabled = FALSE, !.analyzeBtnLabel = LabelAnalyze]

\* showResults rendering the fields without their `|| fallback`
ShowResultsNoFallback(u, data) ==
    [u EXCEPT !.carMake = ToText(data.make),
              !.carModel = ToText(data.model),
              !.carColor = ToText(data.color),
              !.damageSummary = ToText(data.damage_summary),
              !.repairCost = ToText(data.repair_cost_estimate),
              !.welcomeCard = FALSE, !.errorCard = FALSE, !.resultsCard = TRUE]

\* showResults does not touch the loading card; its caller's finally does
ShowResults(u, data) ==
    [u EXCEPT !.carMake = OrElse(data.make, TextUnknown),
              !.carModel = OrElse(data.model, TextUnknown),
              !.carColor = OrElse(data.color, TextUnknown),
              !.damageSummary = OrElse(data.damage_summary, TextNoDamage),
              !.repairCost = OrElse(data.repair_cost_estimate, TextNoEstimate),
              !.welcomeCard = FALSE, !.errorCard = FALSE, !.resultsCard = TRUE]

ShowError(u, message) ==
    HideLoading([u EXCEPT !.errorMessage = message,
                          !.welcomeCard = FALSE, !.resultsCard = FALSE,
                          !.errorCard = TRUE])

(***************************************************************************)
(* Form helpers (script.js:104-152)                                        *)
(***************************************************************************)
IsImage(file) == StartsWith(file.type, <<"i", "m", "a", "g", "e", "/">>)

ClearFile(f) == [f EXCEPT !.file = NoFile, !.filePreview = FALSE]

\* setting urlPreviewImage.src to '' abandons a load in progress
ClearUrl(f) ==
    [f EXCEPT !.url = <<>>, !.urlPreview = FALSE, !.urlImagePending = FALSE]

(***************************************************************************)
(* Initial state                                                           *)
(***************************************************************************)
\* The page as first rendered: the welcome card alone, the button enabled.
InitView ==
    [welcomeCard |-> TRUE, loadingCard |-> FALSE, resultsCard |-> FALSE,
     errorCard |-> FALSE, analyzeBtnDisabled |-> FALSE,
     analyzeBtnLabel |-> LabelAnalyze, errorMessage |-> <<>>,
     carMake |-> <<>>, carModel |-> <<>>, carColor |-> <<>>,
     damageSummary |-> <<>>, repairCost |-> <<>>]

InitForm(file, url) ==
    [file |-> file, url |-> url, filePreview |-> FALSE, urlPreview |-> FALSE,
     readerPending |-> FALSE, urlImagePending |-> FALSE]

\* DOMContentLoaded has called checkAPIConnection, which awaits fetch('/health')
HealthPending == [pc |-> "fetch", ok |-> FALSE, console |-> <<>>]

NoRequests == [fetch |-> 0, okBody |-> 0, errorBody |-> 0]

InitRest ==
    /\ ui = InitView
    /\ currentAnalysisData = Null
    /\ inflight = NoRequests
    /\ post = <<>>
    /\ download = <<>>
    /\ health = HealthPending

\* a freshly loaded page: both inputs empty
Init ==
    /\ form = InitForm(NoFile, <<>>)
    /\ InitRest

\* a page whose form fields the browser restored (reload, back navigation)
\* or a script filled in: the handlers start from any pair of input values
InitRestored ==
    /\ \E file \in Files \cup {NoFile}, url \in UrlInputs :
           form = InitForm(file, url)
    /\ InitRest

\* a handler that sends nothing and creates no file
NoOutput ==
    /\ post' = <<>>
    /\ download' = <<>>

(***************************************************************************)
(* Input events (script.js:69-152)                                         *)
(***************************************************************************)
\* previewFile(file): the view and form after it ran on form f, view u
PreviewFileView(u, file) ==
    IF ~IsImage(file) THEN ShowError(u, MsgSelectNotImage) ELSE u

PreviewFileForm(f, file) ==
    IF ~IsImage(file) THEN f ELSE [f EXCEPT !.readerPending = TRUE]

\* change event of the file input: the browser has put `file` (or nothing,
\* when the dialog is cancelled) in fileInput.files before the handler runs
HandleFileSelect(file) ==
    /\ form' = IF file # NoFile
               THEN PreviewFileForm(ClearUrl([form EXCEPT !.file = file]), file)
               ELSE [form EXCEPT !.file = file]
    /\ ui' = IF file # NoFile THEN PreviewFileView(ui, file) ELSE ui
    /\ UNCHANGED <<currentAnalysisData, inflight>>
    /\ NoOutput
    /\ UNCHANGED health

\* drop event carrying one file (an empty drop only clears the hover style)
HandleDrop(file) ==
    /\ form' = IF IsImage(file)
               THEN PreviewFileForm(ClearUrl([form EXCEPT !.file = file]), file)
               ELSE form
    /\ ui' = IF IsImage(file)
             THEN PreviewFileView(ui, file)
             ELSE ShowError(ui, MsgDropNotImage)
    /\ UNCHANGED <<currentAnalysisData, inflight>>
    /\ NoOutput
    /\ UNCHANGED health

\* the URL input handler without its clearFile() call
ClearFileWhenUrlEnteredKeepsFile(value) ==
    /\ form' = [form EXCEPT !.url = value]
    /\ UNCHANGED <<ui, currentAnalysisData, inflight>>
    /\ NoOutput
    /\ UNCHANGED health

\* input event of the URL field: the browser has stored the typed value
ClearFileWhenUrlEntered(value) ==
    /\ form' = IF Trim(value) # <<>>
               THEN ClearFile([form EXCEPT !.url = value])
               ELSE [form EXCEPT !.url = value]
    /\ UNCHANGED <<ui, currentAnalysisData, inflight>>
    /\ NoOutput
    /\ UNCHANGED health

PreviewUrl ==
    /\ IF Trim(form.url) = <<>>
       THEN /\ ui' = ShowError(ui, MsgEnterUrl)
            /\ form' = form
       ELSE /\ form' = [ClearFile(form) EXCEPT !.urlImagePending = TRUE]
            /\ ui' = ui
    /\ UNCHANGED <<currentAnalysisData, inflight>>
    /\ NoOutput
    /\ UNCHANGED health

\* reader.onload of previewFile
FileReaderOnload ==
    /\ form.readerPending
    /\ form' = [form EXCEPT !.readerPending = FALSE, !.filePreview = TRUE]
    /\ UNCHANGED <<ui, currentAnalysisData, inflight>>
    /\ NoOutput
    /\ UNCHANGED health

\* urlPreviewImage.onload of previewUrl
UrlImageOnload ==
    /\ form.urlImagePending
    /\ form' = [form EXCEPT !.urlImagePending = FALSE, !.urlPreview = TRUE]
    /\ UNCHANGED <<ui, currentAnalysisData, inflight>>
    /\ NoOutput
    /\ UNCHANGED health

\* urlPreviewImage.onerror of previewUrl
UrlImageOnerror ==
    /\ form.urlImagePending
    /\ ui' = ShowError(ui, MsgUrlLoadFailed)
    /\ form' = [form EXCEPT !.urlImagePending = FALSE, !.urlPreview = FALSE]
    /\ UNCHANGED <<currentAnalysisData, inflight>>
    /\ NoOutput
    /\ UNCHANGED health

(***************************************************************************)
(* Submission (script.js:154-216)                                          *)
(***************************************************************************)
InFlight == inflight.fetch + inflight.okBody + inflight.errorBody

\* handleFormSubmit without its `file && url` check
ValidationErrorNoBothCheck(file, url) ==
    IF file = NoFile /\ url = <<>> THEN MsgNoInput ELSE <<>>

\* handleFormSubmit without its `!file && !url` check
ValidationErrorNoNeitherCheck(file, url) ==
    IF file # NoFile /\ url # <<>> THEN MsgNotBoth ELSE <<>>

\* the message handleFormSubmit rejects (file, url) with; <<>> when it accepts
ValidationError(file, url) ==
    IF file = NoFile /\ url = <<>> THEN MsgNoInput
    ELSE IF file # NoFile /\ url # <<>> THEN MsgNotBoth
    ELSE <<>>

\* analyzeImage appending image_url without its `if (url)` test
BuildFormDataAlwaysUrl(file, url) ==
    [fields |-> (IF file # NoFile THEN {"file"} ELSE {}) \cup {"image_url"},
     file |-> file, image_url |-> url]

\* the FormData analyzeImage builds
BuildFormData(file, url) ==
    [fields |-> (IF file # NoFile THEN {"file"} ELSE {})
                    \cup (IF url # <<>> THEN {"image_url"} ELSE {}),
     file |-> file, image_url |-> url]

\* analyzeImage up to its first await: showLoading, then the POST is issued
\* (the first conjunct is the model's bound on concurrent calls)
AnalyzeImage(file, url) ==
    /\ InFlight < MaxInFlight
    /\ ui' = ShowLoading(ui)
    /\ post' = <<BuildFormData(file, url)>>
    /\ inflight' = [inflight EXCEPT !.fetch = @ + 1]
    /\ UNCHANGED <<form, currentAnalysisData>>
    /\ download' = <<>>

\* the browser dispatches submit only while the form's submit control is enabled
SubmitEnabled == ~ui.analyzeBtnDisabled

HandleFormSubmit ==
    /\ SubmitEnabled
    /\ LET file == form.file
           url == Trim(form.url)
       IN IF ValidationError(file, url) # <<>>
          THEN /\ ui' = ShowError(ui, ValidationError(file, url))
               /\ UNCHANGED <<form, currentAnalysisData, inflight>>
               /\ NoOutput
          ELSE AnalyzeImage(file, url)
    /\ UNCHANGED health

\* catch (error) { ... } finally { hideLoading() }
CatchError(u, message) ==
    HideLoading(IF Includes(message, <<"fetch">>)
                THEN ShowError(u, MsgConnect)
                ELSE ShowError(u, IF message # <<>> THEN message ELSE MsgTryAgain))

\* fetch() resolves with a response whose status is 2xx (ok) or not
FetchResolved(ok) ==
    /\ inflight.fetch > 0
    /\ inflight' = IF ok
                   THEN [inflight EXCEPT !.fetch = @ - 1, !.okBody = @ + 1]
                   ELSE [inflight EXCEPT !.fetch = @ - 1, !.errorBody = @ + 1]
    /\ UNCHANGED <<form, ui, currentAnalysisData>>
    /\ NoOutput
    /\ UNCHANGED health

\* the rejection path with an automatic retry: the POST is issued again
FetchRejectedRetries(message) ==
    /\ inflight.fetch > 0
    /\ post' = <<BuildFormData(form.file, Trim(form.url))>>
    /\ download' = <<>>
    /\ UNCHANGED <<form, ui, currentAnalysisData, inflight>>
    /\ UNCHANGED health

\* the rejection path with the held result dropped on failure
FetchRejectedDropsResult(message) ==
    /\ inflight.fetch > 0
    /\ inflight' = [inflight EXCEPT !.fetch = @ - 1]
    /\ ui' = CatchError(ui, message)
    /\ currentAnalysisData' = Null
    /\ UNCHANGED form
    /\ NoOutput
    /\ UNCHANGED health

\* fetch() rejects: no response was received
FetchRejected(message) ==
    /\ inflight.fetch > 0
    /\ inflight' = [inflight EXCEPT !.fetch = @ - 1]
    /\ ui' = CatchError(ui, message)
    /\ UNCHANGED <<form, currentAnalysisData>>
    /\ NoOutput
    /\ UNCHANGED health

\* response.json() of a non-2xx response resolves with errorData
ErrorBodyParsed(errorData) ==
    /\ inflight.errorBody > 0
    /\ inflight' = [inflight EXCEPT !.errorBody = @ - 1]
    /\ ui' = CatchError(ui, OrElse(errorData.detail, MsgAnalysisFailed))
    /\ UNCHANGED <<form, currentAnalysisData>>
    /\ NoOutput
    /\ UNCHANGED health

\* the 2xx continuation without the finally block on its success path
OkBodyParsedNoFinally(data) ==
    /\ inflight.okBody > 0
    /\ inflight' = [inflight EXCEPT !.okBody = @ - 1]
    /\ IF Truthy(data.success)
       THEN /\ currentAnalysisData' = data
            /\ ui' = ShowResults(ui, data)
       ELSE /\ ui' = CatchError(ui, OrElse(data.error, MsgAnalysisFailed))
            /\ UNCHANGED currentAnalysisData
    /\ UNCHANGED form
    /\ NoOutput
    /\ UNCHANGED health

\* the 2xx continuation with a guard that drops a response once a result
\* is held
OkBodyParsedIgnoresLate(data) ==
    /\ inflight.okBody > 0
    /\ inflight' = [inflight EXCEPT !.okBody = @ - 1]
    /\ IF currentAnalysisData # Null
       THEN UNCHANGED <<ui, currentAnalysisData>>
       ELSE IF Truthy(data.success)
       THEN /\ currentAnalysisData' = data
            /\ ui' = HideLoading(ShowResults(ui, data))
       ELSE /\ ui' = CatchError(ui, OrElse(data.error, MsgAnalysisFailed))
            /\ UNCHANGED currentAnalysisData
    /\ UNCHANGED form
    /\ NoOutput
    /\ UNCHANGED health

\* response.json() of a 2xx response resolves with data
OkBodyParsed(data) ==
    /\ inflight.okBody > 0
    /\ inflight' = [inflight EXCEPT !.okBody = @ - 1]
    /\ IF Truthy(data.success)
       THEN /\ currentAnalysisData' = data
            /\ ui' = HideLoading(ShowResults(ui, data))
       ELSE /\ ui' = CatchError(ui, OrElse(data.error, MsgAnalysisFailed))
            /\ UNCHANGED currentAnalysisData
    /\ UNCHANGED form
    /\ NoOutput
    /\ UNCHANGED health

\* the unparsable-body path with no catch around response.json(): the
\* rejection escapes analyzeImage and the view is left as it was
BodyUnparsableUncaught(ok) ==
    /\ IF ok THEN inflight.okBody > 0 ELSE inflight.errorBody > 0
    /\ inflight' = IF ok
                   THEN [inflight EXCEPT !.okBody = @ - 1]
                   ELSE [inflight EXCEPT !.errorBody = @ - 1]
    /\ UNCHANGED <<form, ui, currentAnalysisData>>
    /\ NoOutput
    /\ UNCHANGED health

\* response.json() rejects: the body is not JSON
BodyUnparsable(ok) ==
    /\ IF ok THEN inflight.okBody > 0 ELSE inflight.errorBody > 0
    /\ inflight' = IF ok
                   THEN [inflight EXCEPT !.okBody = @ - 1]
                   ELSE [inflight EXCEPT !.errorBody = @ - 1]
    /\ ui' = CatchError(ui, MsgSyntaxError)
    /\ UNCHANGED <<form, currentAnalysisData>>
    /\ NoOutput
    /\ UNCHANGED health

(***************************************************************************)
(* Reset, report, connectivity (script.js:271-360)                         *)
(***************************************************************************)
\* resetForm without hiding the results card
ResetFormKeepsResults ==
    /\ form' = ClearUrl(ClearFile(form))
    /\ currentAnalysisData' = Null
    /\ ui' = [ui EXCEPT !.errorCard = FALSE,
                        !.welcomeCard = TRUE,
                        !.analyzeBtnDisabled = FALSE,
                        !.analyzeBtnLabel = LabelAnalyze]
    /\ UNCHANGED inflight
    /\ NoOutput
    /\ UNCHANGED health

ResetForm ==
    /\ form' = ClearUrl(ClearFile(form))
    /\ currentAnalysisData' = Null
    /\ ui' = [ui EXCEPT !.resultsCard = FALSE, !.errorCard = FALSE,
                        !.welcomeCard = TRUE,
                        !.analyzeBtnDisabled = FALSE,
                        !.analyzeBtnLabel = LabelAnalyze]
    /\ UNCHANGED inflight
    /\ NoOutput
    /\ UNCHANGED health

\* the interpolated slots of reportText
ReportText(data) ==
    [make |-> ToText(data.make), model |-> ToText(data.model),
     color |-> ToText(data.color), summary |-> ToText(data.damage_summary),
     estimated_cost |-> ToText(data.repair_cost_estimate)]

\* downloadReport handing the held result over: it is cleared once saved
DownloadReportConsumes ==
    /\ IF currentAnalysisData = Null
       THEN /\ ui' = ShowError(ui, MsgNoData)
            /\ download' = <<>>
       ELSE /\ download' = <<ReportText(currentAnalysisData)>>
            /\ UNCHANGED ui
    /\ currentAnalysisData' = Null
    /\ UNCHANGED <<form, inflight>>
    /\ post' = <<>>
    /\ UNCHANGED health

\* downloadReport without its `!currentAnalysisData` guard
DownloadReportUnguarded ==
    /\ download' = <<ReportText(IF currentAnalysisData = Null
                                THEN Failure(Undefined, Undefined, Undefined)
                                ELSE currentAnalysisData)>>
    /\ UNCHANGED <<form, ui, currentAnalysisData, inflight>>
    /\ post' = <<>>
    /\ UNCHANGED health

DownloadReport ==
    /\ IF currentAnalysisData = Null
       THEN /\ ui' = ShowError(ui, MsgNoData)
            /\ download' = <<>>
       ELSE /\ download' = <<ReportText(currentAnalysisData)>>
            /\ UNCHANGED ui
    /\ UNCHANGED <<form, currentAnalysisData, inflight>>
    /\ post' = <<>>
    /\ UNCHANGED health

\* window 'offline' event
Offline ==
    /\ ui' = ShowError(ui, MsgOffline)
    /\ UNCHANGED <<form, currentAnalysisData, inflight>>
    /\ NoOutput
    /\ UNCHANGED health

(***************************************************************************)
(* Startup health check (script.js:53-67): it writes to the console only   *)
(***************************************************************************)
LogConnected == <<"API", "connected", "successfully">>
WarnHealthFailed == <<"API", "health", "check", "failed">>
WarnConnectionFailed == <<"API", "connection", "failed">>

\* the status field of the /health body
HealthStatuses == {Str(<<"healthy">>), Str(<<"degraded">>), Undefined}

HealthDone(console) == [pc |-> "done", ok |-> FALSE, console |-> console]

\* the health check with its failure reported in the error view
HealthFetchRejectedShowsError ==
    /\ health.pc = "fetch"
    /\ health' = HealthDone(WarnConnectionFailed)
    /\ ui' = ShowError(ui, MsgConnect)
    /\ UNCHANGED <<form, currentAnalysisData, inflight>>
    /\ NoOutput

\* fetch('/health') resolves with a response whose status is 2xx (ok) or not
HealthFetchResolved(ok) ==
    /\ health.pc = "fetch"
    /\ health' = [pc |-> "json", ok |-> ok, console |-> <<>>]
    /\ UNCHANGED <<form, ui, currentAnalysisData, inflight>>
    /\ NoOutput

\* fetch('/health') rejects
HealthFetchRejected ==
    /\ health.pc = "fetch"
    /\ health' = HealthDone(WarnConnectionFailed)
    /\ UNCHANGED <<form, ui, currentAnalysisData, inflight>>
    /\ NoOutput

\* response.json() of the health response resolves with {status}
HealthBodyParsed(status) ==
    /\ health.pc = "json"
    /\ health' = HealthDone(IF health.ok /\ status = Str(<<"healthy">>)
                            THEN LogConnected
                            ELSE WarnHealthFailed)
    /\ UNCHANGED <<form, ui, currentAnalysisData, inflight>>
    /\ NoOutput

\* response.json() of the health response rejects
HealthBodyUnparsable ==
    /\ health.pc = "json"
    /\ health' = HealthDone(WarnConnectionFailed)
    /\ UNCHANGED <<form, ui, currentAnalysisData, inflight>>
    /\ NoOutput

Next ==
    \/ \E file \in Files \cup {NoFile} : HandleFileSelect(file)
    \/ \E file \in Files : HandleDrop(file)
    \/ \E value \in UrlInputs : ClearFileWhenUrlEntered(value)
    \/ PreviewUrl
    \/ FileReaderOnload
    \/ UrlImageOnload
    \/ UrlImageOnerror
    \/ HandleFormSubmit
    \/ \E ok \in BOOLEAN : FetchResolved(ok)
    \/ \E message \in TransportErrors : FetchRejected(message)
    \/ \E errorData \in ErrorBodies : ErrorBodyParsed(errorData)
    \/ \E data \in OkBodies : OkBodyParsed(data)
    \/ \E ok \in BOOLEAN : BodyUnparsable(ok)
    \/ ResetForm
    \/ DownloadReport
    \/ Offline

Spec == Init /\ [][Next]_vars

SpecRestored == InitRestored /\ [][Next]_vars

\* the continuations of checkAPIConnection
HealthCheck ==
    \/ \E ok \in BOOLEAN : HealthFetchResolved(ok)
    \/ HealthFetchRejected
    \/ \E status \in HealthStatuses : HealthBodyParsed(status)
    \/ HealthBodyUnparsable

\* the page from load on: the health check interleaved with every handler
\* but the preview loaders
NextStartup ==
    \/ \E file \in Files \cup {NoFile} : HandleFileSelect(file)
    \/ \E file \in Files : HandleDrop(file)
    \/ \E value \in UrlInputs : ClearFileWhenUrlEntered(value)
    \/ HandleFormSubmit
    \/ \E ok \in BOOLEAN : FetchResolved(ok)
    \/ \E message \in TransportErrors : FetchRejected(message)
    \/ \E errorData \in ErrorBodies : ErrorBodyParsed(errorData)
    \/ \E data \in OkBodies : OkBodyParsed(data)
    \/ \E ok \in BOOLEAN : BodyUnparsable(ok)
    \/ ResetForm
    \/ DownloadReport
    \/ Offline
    \/ HealthCheck

SpecStartup == Init /\ [][NextStartup]_vars

(***************************************************************************)
(* View states                                                             *)
(***************************************************************************)
Cards == {"welcomeCard", "loadingCard", "resultsCard", "errorCard"}

Displayed(u) == {c \in Cards : u[c]}

ErrorView(u) == Displayed(u) = {"errorCard"}

ResultsView(u) == Displayed(u) = {"resultsCard"}

HasFile == form.file # NoFile

HasUrl == Trim(form.url) # <<>>

(***************************************************************************)
(* Properties                                                              *)
(***************************************************************************)

\* C1: a submit with both a file selected and a non-blank URL ends in the
\* error view with the "Please provide either a file or URL, not both"
\* message, and neither issues a POST nor starts a request.
SubmitBothRejected ==
    [][(HandleFormSubmit /\ HasFile /\ HasUrl)
         => /\ ErrorView(ui')
            /\ ui'.errorMessage = MsgNotBoth
            /\ post' = <<>>
            /\ inflight' = inflight]_vars

\* C1 witness: both inputs are set and the submit was rejected with that message
SubmitBothRejectedWitness ==
    /\ HasFile
    /\ HasUrl
    /\ ErrorView(ui)
    /\ ui.errorMessage = MsgNotBoth

\* C2: a submit with no file and an empty or blank URL ends in the error
\* view with the validation message asking for an input, and neither issues
\* a POST nor starts a request.
SubmitNeitherRejected ==
    [][(HandleFormSubmit /\ ~HasFile /\ ~HasUrl)
         => /\ ErrorView(ui')
            /\ ui'.errorMessage = MsgNoInput
            /\ post' = <<>>
            /\ inflight' = inflight]_vars

\* C2 witness: no file, a blank (not empty) URL, and the submit was rejected
SubmitNeitherRejectedWitness ==
    /\ ~HasFile
    /\ form.url # <<>>
    /\ ~HasUrl
    /\ ErrorView(ui)
    /\ ui.errorMessage = MsgNoInput

\* C3: every POST the client issues carries exactly one of the fields
\* `file` and `image_url`, and the field it carries has a value.
PostCarriesExactlyOne ==
    post # <<>> =>
        /\ Cardinality(post[1].fields) = 1
        /\ post[1].fields \subseteq {"file", "image_url"}
        /\ "file" \in post[1].fields => post[1].file # NoFile
        /\ "image_url" \in post[1].fields => post[1].image_url # <<>>

\* C3 witness: a POST of a file alone was issued although the URL field
\* was not empty (it held only blanks)
PostCarriesExactlyOneWitness ==
    /\ post # <<>>
    /\ post[1].fields = {"file"}
    /\ form.url # <<>>

\* C4: a non-2xx response always ends in the error view (never the results
\* view), showing the body's `detail` when it has one and the default
\* 'Analysis failed' otherwise (no detail, or a body that is not JSON).
NonOkShowsDetailOrDefault ==
    [][/\ \A errorData \in ErrorBodies :
            ErrorBodyParsed(errorData)
              => /\ ErrorView(ui')
                 /\ ui'.errorMessage =
                      IF Truthy(errorData.detail)
                      THEN errorData.detail.s
                      ELSE MsgAnalysisFailed
       /\ (BodyUnparsable(FALSE) /\ inflight.errorBody > 0)
            => /\ ErrorView(ui')
               /\ ui'.errorMessage = MsgAnalysisFailed]_vars

\* C5: a 2xx response whose `success` is false or absent ends in the error
\* view showing the body's `error` when it has one and the generic
\* 'Analysis failed' otherwise, and is neither stored nor rendered.
UnsuccessfulShowsErrorField ==
    [][\A data \in OkBodies :
         (OkBodyParsed(data) /\ ~Truthy(data.success))
           => /\ ErrorView(ui')
              /\ ui'.errorMessage =
                   IF Truthy(data.error) THEN data.error.s ELSE MsgAnalysisFailed
              /\ currentAnalysisData' = currentAnalysisData
              /\ ui'.carMake = ui.carMake
              /\ ui'.carModel = ui.carModel
              /\ ui'.carColor = ui.carColor
              /\ ui'.damageSummary = ui.damageSummary
              /\ ui'.repairCost = ui.repairCost]_vars

\* C6: the connectivity message is shown for every rejected fetch and for
\* no server-reported failure; a server-reported failure that carries a
\* message shows that message verbatim.
ClassificationExact ==
    [][/\ \A message \in TransportErrors :
            FetchRejected(message) => ui'.errorMessage = MsgConnect
       /\ \A errorData \in ErrorBodies :
            ErrorBodyParsed(errorData)
              => /\ ui'.errorMessage # MsgConnect
                 /\ Truthy(errorData.detail)
                      => ui'.errorMessage = errorData.detail.s
       /\ \A data \in OkBodies :
            (OkBodyParsed(data) /\ ~Truthy(data.success))
              => /\ ui'.errorMessage # MsgConnect
                 /\ Truthy(data.error) => ui'.errorMessage = data.error.s]_vars

\* what a result field must read: the value received when it is a non-empty
\* string, the fallback when it is missing (or empty)
FieldRendered(shown, value, fallback) ==
    /\ (value.t = "string" /\ value.s # <<>>) => shown = value.s
    /\ value = Undefined => shown = fallback
    /\ value = Str(<<>>) => shown = fallback

\* C7: a successful response is stored as the held result, the results view
\* is shown, and each field reads as received when present, "Unknown" for a
\* missing make, model or color, and the fixed fallback text for a missing
\* damage summary or cost estimate.
SuccessStoredAndRendered ==
    [][\A data \in OkBodies :
         (OkBodyParsed(data) /\ Truthy(data.success))
           => /\ currentAnalysisData' = data
              /\ ResultsView(ui')
              /\ FieldRendered(ui'.carMake, data.make, TextUnknown)
              /\ FieldRendered(ui'.carModel, data.model, TextUnknown)
              /\ FieldRendered(ui'.carColor, data.color, TextUnknown)
              /\ FieldRendered(ui'.damageSummary, data.damage_summary,
                               TextNoDamage)
              /\ FieldRendered(ui'.repairCost, data.repair_cost_estimate,
                               TextNoEstimate)]_vars

\* C7 witness: the results view shows a stored result whose make is missing
SuccessStoredAndRenderedWitness ==
    /\ ResultsView(ui)
    /\ currentAnalysisData # Null
    /\ currentAnalysisData.make = Undefined
    /\ ui.carMake = TextUnknown

\* C8: downloadReport with no held result shows the 'No analysis data
\* available to download' error and creates no report file.
DownloadWithoutDataFails ==
    [][(DownloadReport /\ currentAnalysisData = Null)
         => /\ ErrorView(ui')
            /\ ui'.errorMessage = MsgNoData
            /\ download' = <<>>]_vars

\* C8 witness: the no-data error is shown after an earlier result had been
\* rendered and then dropped by resetForm
DownloadWithoutDataFailsWitness ==
    /\ currentAnalysisData = Null
    /\ ui.carMake # <<>>
    /\ ErrorView(ui)
    /\ ui.errorMessage = MsgNoData
    /\ download = <<>>

\* C9: the report downloadReport creates holds, for make, model, color,
\* damage summary and cost estimate, exactly the five texts the results
\* view showed for the held result.
ReportMatchesShown ==
    [][(DownloadReport /\ currentAnalysisData # Null)
         => /\ download' # <<>>
            /\ download'[1].make = ui.carMake
            /\ download'[1].model = ui.carModel
            /\ download'[1].color = ui.carColor
            /\ download'[1].summary = ui.damageSummary
            /\ download'[1].estimated_cost = ui.repairCost]_vars

\* C10: at most one of the welcome, loading, results and error cards is
\* displayed.
AtMostOneCard == Cardinality(Displayed(ui)) <= 1

\* C11: after any sequence of file-select, drop and URL-input events (and
\* the other handlers) on a freshly loaded page, a selected file and a
\* non-blank URL are never set together.
InputsMutuallyExclusive == ~(HasFile /\ HasUrl)

\* C11 witness: a URL is set and no file is, while the FileReader of an
\* earlier file selection is still reading: entering the URL cleared the file
InputsMutuallyExclusiveWitness ==
    /\ HasUrl
    /\ ~HasFile
    /\ form.readerPending

\* C12: while a request is in flight the analyze button stays disabled,
\* whatever handler other than resetForm runs in between (offline, a
\* non-image drop or selection, downloadReport without data, a URL preview
\* load error, the completion of another request).
ButtonDisabledWhileInFlight ==
    [][(/\ InFlight > 0
        /\ InFlight' > 0
        /\ ui.analyzeBtnDisabled
        /\ ~ResetForm)
         => ui'.analyzeBtnDisabled]_vars

\* the result fields on display read as showResults renders data
RenderedFrom(u, data) ==
    /\ FieldRendered(u.carMake, data.make, TextUnknown)
    /\ FieldRendered(u.carModel, data.model, TextUnknown)
    /\ FieldRendered(u.carColor, data.color, TextUnknown)
    /\ FieldRendered(u.damageSummary, data.damage_summary, TextNoDamage)
    /\ FieldRendered(u.repairCost, data.repair_cost_estimate, TextNoEstimate)

\* C13: overlapping requests are neither cancelled nor ignored: no step
\* removes more than the one request it completes, and a successful response
\* that arrives while the result of an overlapping request is already held
\* and on display replaces both the held result and the displayed fields.
LateResponseOverwrites ==
    [][/\ InFlight' >= InFlight - 1
       /\ \A data \in SuccessBodies :
            (/\ OkBodyParsed(data)
             /\ ResultsView(ui)
             /\ currentAnalysisData # Null)
              => /\ currentAnalysisData' = data
                 /\ ResultsView(ui')
                 /\ RenderedFrom(ui', data)]_vars

\* C13 witness: one request's result is held and on display while the body
\* of an overlapping request's response is being read (a submit would have
\* replaced the results view by the loading view)
LateResponseOverwritesWitness ==
    /\ ResultsView(ui)
    /\ currentAnalysisData = FullResult
    /\ inflight.okBody = 1

\* C14: the held result changes only when a successful response is handled
\* (to that response) or resetForm runs (to null); every other step, failed
\* attempts included, leaves it as it was.
HeldResultWriters ==
    [][currentAnalysisData' # currentAnalysisData
         => \/ ResetForm /\ currentAnalysisData' = Null
            \/ \E data \in SuccessBodies :
                 OkBodyParsed(data) /\ currentAnalysisData' = data]_vars

\* C14 witness: the report of an earlier success has just been downloaded
\* from the error view a later failed attempt ended in
HeldResultWritersWitness ==
    /\ ErrorView(ui)
    /\ ui.errorMessage = ServerPlain
    /\ currentAnalysisData = FullResult
    /\ download = <<ReportText(FullResult)>>

\* a step in which a request ends on one of analyzeImage's failure paths
RequestFails ==
    \/ \E message \in TransportErrors : FetchRejected(message)
    \/ \E errorData \in ErrorBodies : ErrorBodyParsed(errorData)
    \/ \E data \in FailureBodies : OkBodyParsed(data)
    \/ \E ok \in BOOLEAN : BodyUnparsable(ok)

\* C15: when a request's outcome is handled the page is out of the loading
\* state: a success ends in the results view, and every failure (transport
\* failure, non-2xx status, unparsable body, success not true) ends in the
\* error view with a non-empty message; in both cases the loading card is
\* hidden and the analyze button is enabled again.
RequestLeavesLoading ==
    [][InFlight' < InFlight
         => /\ ~ui'.loadingCard
            /\ ~ui'.analyzeBtnDisabled
            /\ ui'.analyzeBtnLabel = LabelAnalyze
            /\ (\E data \in SuccessBodies : OkBodyParsed(data))
                 => ResultsView(ui')
            /\ RequestFails
                 => ErrorView(ui') /\ ui'.errorMessage # <<>>
            /\ \/ \E data \in SuccessBodies : OkBodyParsed(data)
               \/ RequestFails]_vars

\* C15 witness: a 2xx response whose body was not JSON has ended in the error
\* view with the parser's message, nothing left in flight, button enabled
RequestLeavesLoadingWitness ==
    /\ ErrorView(ui)
    /\ ui.errorMessage = MsgSyntaxError
    /\ ~ui.analyzeBtnDisabled
    /\ InFlight = 0

\* a step in which handleFormSubmit passes both checks and calls analyzeImage
AcceptedSubmit ==
    /\ ValidationError(form.file, Trim(form.url)) = <<>>
    /\ HandleFormSubmit

\* C16: a POST is issued in exactly the steps that are accepted submits, one
\* POST and one new pending request per such step; every other step, the
\* handling of a failure included, issues none and starts no request, so the
\* POSTs issued and the accepted submissions stay equal in number.
OnePostPerAcceptedSubmit ==
    [][IF AcceptedSubmit
       THEN Len(post') = 1 /\ InFlight' = InFlight + 1
       ELSE post' = <<>> /\ InFlight' <= InFlight]_vars

\* C16 witness: a transport failure has been handled and reported, and no
\* request is pending or being issued
OnePostPerAcceptedSubmitWitness ==
    /\ ErrorView(ui)
    /\ ui.errorMessage = <<"Load", "failed">>
    /\ HasFile
    /\ InFlight = 0
    /\ post = <<>>

\* C17: selecting or dropping a file whose type does not start with "image/"
\* ends in the error view at once without a POST or a new request, and no
\* POST ever carries a file that is not an image.
NonImageRejectedAndNeverSent ==
    [][/\ \A file \in Files :
            (~IsImage(file) /\ (HandleFileSelect(file) \/ HandleDrop(file)))
              => /\ ErrorView(ui')
                 /\ ui'.errorMessage \in {MsgSelectNotImage, MsgDropNotImage}
                 /\ post' = <<>>
                 /\ inflight' = inflight
       /\ (post' # <<>> /\ "file" \in post'[1].fields)
            => IsImage(post'[1].file)]_vars

\* C18: no step of the startup health check, whatever its outcome, changes
\* the cards, the button, the rendered text, the inputs, the held result or
\* the pending requests, or issues a POST; and whether the check is pending,
\* healthy, unhealthy or failed, a submit of valid input is accepted whenever
\* the button is enabled.
HealthCheckNeverGates ==
    /\ []((/\ SubmitEnabled
           /\ ValidationError(form.file, Trim(form.url)) = <<>>
           /\ InFlight < MaxInFlight)
            => ENABLED AcceptedSubmit)
    /\ [][HealthCheck
            => /\ UNCHANGED <<form, ui, currentAnalysisData, inflight>>
               /\ post' = <<>>]_vars

\* C18 witness: the health check has failed and a submit has just been
\* accepted: its POST is issued and the loading view is shown
HealthCheckNeverGatesWitness ==
    /\ health.console = WarnConnectionFailed
    /\ post # <<>>
    /\ ui.loadingCard

\* C19: with a result held, downloadReport issues no request and changes
\* neither the held result, the view, the inputs, the button nor the pending
\* requests; the report it creates is computed from the held result alone,
\* so a second call right after the first creates the same report.
DownloadReportIsLocal ==
    [][(DownloadReport /\ currentAnalysisData # Null)
         => /\ UNCHANGED <<form, ui, currentAnalysisData, inflight>>
            /\ post' = <<>>
            /\ download' = <<ReportText(currentAnalysisData')>>
            /\ download # <<>> => download' = download]_vars

\* C19 witness: a report has just been created from the results view while
\* the file that was analysed is still selected
DownloadReportIsLocalWitness ==
    /\ ResultsView(ui)
    /\ download = <<ReportText(currentAnalysisData)>>
    /\ HasFile

\* C20: whenever the results card is displayed a result is held and the
\* displayed fields read as rendered from the result held now, so a
\* downloadReport from the results view finds data, and a report created
\* there is that of the analysis on display.
ResultsShownAreHeld ==
    ui.resultsCard
      => /\ currentAnalysisData # Null
         /\ Truthy(currentAnalysisData.success)
         /\ RenderedFrom(ui, currentAnalysisData)
         /\ ~ui.errorCard
         /\ download # <<>> => download = <<ReportText(currentAnalysisData)>>

\* C20 witness: results are on display after an error event and a second
\* submission, while the other of the two overlapping requests is pending
ResultsShownAreHeldWitness ==
    /\ ui.resultsCard
    /\ ui.errorMessage = MsgOffline
    /\ currentAnalysisData = SparseResult
    /\ inflight.fetch = 1

\* C21: in every reachable state with no request in flight the loading card
\* is hidden and the analyze button is enabled.
NoStuckLoading ==
    InFlight = 0 => ~ui.loadingCard /\ ~ui.analyzeBtnDisabled

\* C21 witness: two overlapping requests have both ended, one in a transport
\* failure and then one in a success, and nothing is in flight
NoStuckLoadingWitness ==
    /\ InFlight = 0
    /\ ResultsView(ui)
    /\ ui.errorMessage = <<"Load", "failed">>
    /\ currentAnalysisData = SparseResult
    /\ ~ui.analyzeBtnDisabled

\* C22: the loading card is displayed in every state in which a request is
\* in flight: neither the completion of another request nor an error event
\* hides it while a request is still pending.
LoadingShownWhileInFlight ==
    InFlight > 0 => ui.loadingCard

\* the idle view: the welcome card alone is displayed
IdleView(u) == Displayed(u) = {"welcomeCard"}

\* a continuation of a pending analyzeImage call runs: no user event
RequestContinues == inflight' # inflight /\ InFlight' <= InFlight

\* C23: resetForm leaves both inputs empty, no held result and the welcome
\* card alone on display, also when a request is in flight; and from the idle
\* view with no held result the continuations of requests submitted earlier
\* leave the view idle and the held result null.
ResetReturnsToIdle ==
    [][/\ ResetForm
            => /\ form'.file = NoFile
               /\ form'.url = <<>>
               /\ currentAnalysisData' = Null
               /\ IdleView(ui')
       /\ (IdleView(ui) /\ currentAnalysisData = Null /\ RequestContinues)
            => /\ IdleView(ui')
               /\ currentAnalysisData' = Null]_vars

\* C24: the file preview is visible only while a file is selected, the URL
\* preview only while the URL field is non-empty, and the two are never
\* visible together, whenever the FileReader and image callbacks fire.
PreviewsFollowInputs ==
    /\ form.filePreview => form.file # NoFile
    /\ form.urlPreview => form.url # <<>>
    /\ ~(form.filePreview /\ form.urlPreview)

====
